---- MODULE Spec2Model ----
(***************************************************************************)
(* The dock of a workspace window (crates/workspace/src/dock.rs): the      *)
(* DockPosition value, the Dock coordinator with its single choke point    *)
(* set_dock_position, and the operations that reach it (commands, sidebar  *)
(* toggles, focus changes, item closes).                                   *)
(*                                                                         *)
(* The pane container, the sidebars, the workspace's focus routing and the *)
(* view context (cx.focus, cx.emit) are collaborators whose code is not in *)
(* dock.rs; they are modelled at the interface dock.rs uses, from the      *)
(* design document and from the test suite at the bottom of dock.rs.       *)
(***************************************************************************)
EXTENDS Integers, Sequences, FiniteSets, TLC

\* Bounds of the model.
MaxItems == 2          \* item instances the factory / the user may create
MaxCenterPanes == 2    \* center panes the workspace may ever create
MaxSize == 2           \* panel sizes range over 1..MaxSize

(***************************************************************************)
(* settings::DockAnchor, sidebar::SidebarSide                              *)
(***************************************************************************)
DockAnchor == {"Right", "Bottom", "Expanded"}
SidebarSide == {"Left", "Right"}

(***************************************************************************)
(* enum DockPosition { Shown(DockAnchor), Hidden(DockAnchor) }             *)
(***************************************************************************)
Shown(a) == [tag |-> "Shown", anchor |-> a]
Hidden(a) == [tag |-> "Hidden", anchor |-> a]
DockPosition == {Shown(a) : a \in DockAnchor} \cup {Hidden(a) : a \in DockAnchor}

is_visible(p) == CASE p.tag = "Shown" -> TRUE
                   [] p.tag = "Hidden" -> FALSE

anchor(p) == p.anchor

\* Faulty variant: hide toggles, a hidden position becomes shown.
hide_toggles(p) == CASE p.tag = "Shown" -> Hidden(p.anchor)
                     [] p.tag = "Hidden" -> Shown(p.anchor)

hide(p) == CASE p.tag = "Shown" -> Hidden(p.anchor)
             [] p.tag = "Hidden" -> p

\* Faulty variant: show rebuilds the position with the default anchor.
show_default_anchor(p) == CASE p.tag = "Hidden" -> Shown("Right")
                            [] p.tag = "Shown" -> p

show(p) == CASE p.tag = "Hidden" -> Shown(p.anchor)
             [] p.tag = "Shown" -> p

(***************************************************************************)
(* Views that can hold input focus.  A focus target is [pane, item]:       *)
(* the workspace's root view, a pane itself (item = NoItem) or an item of  *)
(* the dock pane.                                                          *)
(***************************************************************************)
WorkspaceView == -1
DockPane == 0
NoItem == 0
NoPane == 0
CenterPaneIds == 1..MaxCenterPanes
PaneIds == {DockPane} \cup CenterPaneIds
ItemIds == 1..MaxItems

\* Panel sizes (f32 in the code) are the values 1..MaxSize; NoSize is a missing entry.
NoSize == 0
Sizes == 1..MaxSize
ResizableAnchors == {"Right", "Bottom"}

\* style.initial_size_bottom, style.initial_size_right of the theme
initial_size(a) == IF a = "Bottom" THEN 2 ELSE 1

PaneView(p) == [pane |-> p, item |-> NoItem]
ItemView(p, i) == [pane |-> p, item |-> i]

(***************************************************************************)
(* State.  position and pane (items, active item, anchor tag, is_active)   *)
(* are the Dock's fields; the rest is the part of the workspace the dock   *)
(* reads and writes.                                                       *)
(***************************************************************************)
VARIABLES
    position,                 \* Dock.position
    pane_docked,              \* the anchor the dock's pane was tagged with (set_docked)
    items,                    \* the dock pane's items (item instance ids)
    active_item,              \* the dock pane's active item, NoItem when empty
    next_item,                \* the next fresh item instance id
    left_open, right_open,    \* Sidebar.is_open() of the two sidebars
    focused,                  \* the view holding input focus
    pane_active,              \* Pane.is_active() of every pane
    active_pane,              \* Workspace.active_pane
    last_active_center_pane,  \* Workspace.last_active_center_pane (weak), NoPane = None
    center_panes,             \* the center panes that are alive
    panes_created,            \* how many center panes were ever created
    closing,                  \* items of a pending Pane::close_items task
    emitted,                  \* DockAnchorChanged events of the last operation
    called,                   \* new_position of each set_dock_position call of the last operation
    invoked,                  \* default_item_factory invocations of the last operation
    button,                   \* what ToggleDockButton rendered last: handler, icon, style
    workspace_alive,          \* the workspace view still exists (weak handles upgrade)
    panel_sizes,              \* Dock.panel_sizes, NoSize = no entry
    handle_size,              \* the resize handles' element state, per anchor
    deferred,                 \* callbacks queued by cx.defer, not yet run
    rendered,                 \* the elements Dock::render returned in the last render pass
    pre,                      \* history: the state before the last operation
    last_op                   \* history: the last operation and its arguments

prog_vars == <<position, pane_docked, items, active_item, next_item, left_open,
               right_open, focused, pane_active, active_pane,
               last_active_center_pane, center_panes, panes_created, closing>>
render_vars == <<button, workspace_alive, panel_sizes, handle_size, deferred, rendered>>
vars == <<prog_vars, render_vars, emitted, called, invoked, pre, last_op>>

\* The workspace as one value, the `workspace: &mut Workspace` of the handlers.
State == [position |-> position, pane_docked |-> pane_docked, items |-> items,
          active_item |-> active_item, next_item |-> next_item,
          left_open |-> left_open, right_open |-> right_open,
          focused |-> focused, pane_active |-> pane_active,
          active_pane |-> active_pane,
          last_active_center_pane |-> last_active_center_pane,
          center_panes |-> center_panes, panes_created |-> panes_created,
          closing |-> closing, emitted |-> <<>>, called |-> <<>>, invoked |-> <<>>,
          button |-> button, workspace_alive |-> workspace_alive,
          panel_sizes |-> panel_sizes, handle_size |-> handle_size,
          deferred |-> deferred, rendered |-> rendered]

Op(name, a, side, id) == [name |-> name, anchor |-> a, side |-> side, id |-> id]

(***************************************************************************)
(* Dock accessors                                                          *)
(***************************************************************************)
is_anchored_at(ws, a) == is_visible(ws.position) /\ anchor(ws.position) = a

visible_pane(ws) == IF is_visible(ws.position) THEN {DockPane} ELSE {}

sidebar_is_open(ws, side) == IF side = "Right" THEN ws.right_open ELSE ws.left_open

\* WeakViewHandle::upgrade of workspace.last_active_center_pane
upgrade_last_active_center_pane(ws) ==
    IF ws.last_active_center_pane # NoPane
       /\ ws.last_active_center_pane \in ws.center_panes
    THEN {ws.last_active_center_pane}
    ELSE {}

\* What an observer of DockAnchorChanged reads when the event is emitted.
Observed(ws) == [position |-> ws.position, right_open |-> ws.right_open,
                 focused |-> ws.focused, items |-> ws.items]

\* Faulty variant: the event is emitted in the visible branch only.
emit_only_when_visible(ws) ==
    IF is_visible(ws.position)
    THEN [ws EXCEPT !.emitted = Append(@, Observed(ws))]
    ELSE ws

emit_DockAnchorChanged(ws) == [ws EXCEPT !.emitted = Append(@, Observed(ws))]

RECURSIVE set_dock_position(_, _)

\* Faulty variant: hide passes the position through show().
Dock_hide_calls_show(ws) == set_dock_position(ws, show(ws.position))

Dock_hide(ws) == set_dock_position(ws, hide(ws.position))

\* Faulty variant: show passes the position through hide().
Dock_show_calls_hide(ws) == set_dock_position(ws, hide(ws.position))

Dock_show(ws) == set_dock_position(ws, show(ws.position))

\* Faulty variant: the `|| is_anchored_at(Expanded)` operand is missing.
hide_on_sidebar_shown_no_expanded(ws, sidebar_side) ==
    IF sidebar_side = "Right" /\ is_anchored_at(ws, "Right")
    THEN Dock_hide(ws)
    ELSE ws

\* Faulty variant: the `sidebar_side == SidebarSide::Right` test is missing.
hide_on_sidebar_shown_any_side(ws, sidebar_side) ==
    IF is_anchored_at(ws, "Right") \/ is_anchored_at(ws, "Expanded")
    THEN Dock_hide(ws)
    ELSE ws

hide_on_sidebar_shown(ws, sidebar_side) ==
    IF (sidebar_side = "Right" /\ is_anchored_at(ws, "Right"))
       \/ is_anchored_at(ws, "Expanded")
    THEN Dock_hide(ws)
    ELSE ws

\* Workspace::toggle_sidebar: flips the sidebar and, when it opened, tells the dock.
toggle_sidebar(ws, sidebar_side) ==
    LET open == ~sidebar_is_open(ws, sidebar_side)
        ws1 == IF sidebar_side = "Right"
               THEN [ws EXCEPT !.right_open = open]
               ELSE [ws EXCEPT !.left_open = open]
    IN IF open THEN hide_on_sidebar_shown(ws1, sidebar_side) ELSE ws1

\* Workspace::handle_pane_focused: the pane that received focus becomes the active
\* pane; focusing the dock's pane shows the dock, focusing a center pane records
\* it as last active center pane and hides an expanded dock.
handle_pane_focused(ws, p) ==
    IF ws.active_pane # p
    THEN LET ws1 == [ws EXCEPT !.pane_active =
                                  [[@ EXCEPT ![ws.active_pane] = FALSE] EXCEPT ![p] = TRUE],
                               !.active_pane = p]
         IN IF p = DockPane
            THEN Dock_show(ws1)
            ELSE LET ws2 == [ws1 EXCEPT !.last_active_center_pane = p]
                 IN IF is_anchored_at(ws2, "Expanded")
                    THEN Dock_hide(ws2)
                    ELSE ws2
    ELSE ws

\* cx.focus(view): a pane focused directly hands focus to its active item; the
\* pane the focused view belongs to is reported to the workspace.
focus(ws, view) ==
    LET target == IF view.pane = DockPane /\ view.item = NoItem /\ ws.items # {}
                  THEN ItemView(DockPane, ws.active_item)
                  ELSE view
        ws1 == [ws EXCEPT !.focused = target]
    IN IF target.pane = WorkspaceView
       THEN ws1
       ELSE handle_pane_focused(ws1, target.pane)

\* Faulty variant: the factory hands out the instance it made last time.
stale_item_factory(ws) == IF ws.next_item > 1 THEN ws.next_item - 1 ELSE ws.next_item

\* (workspace.dock.default_item_factory)(workspace, cx): a new item instance (the
\* factory of the tests adds a new view); Pane_add_item counts it as created.
default_item_factory(ws) == ws.next_item

\* The factory is invoked during the set_dock_position call begun last, with the
\* workspace as it is then.
factory_invoked(ws) ==
    [ws EXCEPT !.invoked = Append(@, [call |-> Len(ws.called),
                                      position |-> ws.position,
                                      items |-> ws.items])]

\* Pane::add_item(workspace, &pane, item, true, true, None, cx) on the dock's pane:
\* the item is inserted, made the active item and focused.
Pane_add_item(ws, item) ==
    focus([ws EXCEPT !.items = @ \cup {item},
                     !.active_item = item,
                     !.next_item = @ + 1],
          ItemView(DockPane, item))

\* Faulty variant: showing the dock leaves the right sidebar alone.
close_right_sidebar_skipped(ws) == ws

\* Faulty variant: the collision test names the wrong anchor.
close_right_sidebar_wrong_anchor(ws) ==
    IF anchor(ws.position) = "Bottom"
    THEN IF ws.right_open
         THEN toggle_sidebar(ws, "Right")
         ELSE ws
    ELSE ws

\* Faulty variant: the anchor test is missing, any shown dock closes the sidebar.
close_right_sidebar_any_anchor(ws) ==
    IF ws.right_open
    THEN toggle_sidebar(ws, "Right")
    ELSE ws

\* set_dock_position, lines 156-162
close_right_sidebar_on_collision(ws) ==
    IF anchor(ws.position) = "Right"
    THEN IF ws.right_open
         THEN toggle_sidebar(ws, "Right")
         ELSE ws
    ELSE ws

\* Faulty variant: the emptiness test is missing, the pane is only focused.
ensure_item_never_adds(ws) == focus(ws, PaneView(DockPane))

\* Faulty variant: a pane that already holds an item is not focused.
ensure_item_no_focus(ws) ==
    IF ws.items = {}
    THEN Pane_add_item(factory_invoked(ws), default_item_factory(ws))
    ELSE ws

\* Faulty variant: a default item is added on every transition to a visible position.
ensure_item_always_adds(ws) == Pane_add_item(factory_invoked(ws), default_item_factory(ws))

\* set_dock_position, lines 164-172
ensure_item_or_focus(ws) ==
    IF ws.items = {}
    THEN Pane_add_item(factory_invoked(ws), default_item_factory(ws))
    ELSE focus(ws, PaneView(DockPane))

\* Faulty variant: the weak handle is used without upgrade()'s liveness test.
restore_center_focus_unchecked(ws) ==
    IF ws.last_active_center_pane # NoPane
    THEN focus(ws, PaneView(ws.last_active_center_pane))
    ELSE ws

\* set_dock_position, lines 173-179
restore_center_focus(ws) ==
    IF upgrade_last_active_center_pane(ws) # {}
    THEN focus(ws, PaneView(CHOOSE p \in upgrade_last_active_center_pane(ws) : TRUE))
    ELSE ws

\* Faulty variant: the notification is emitted before the invariants are enforced.
set_dock_position_emits_first(ws, new_position) ==
    LET ws1 == emit_DockAnchorChanged(
                   [ws EXCEPT !.position = new_position,
                              !.pane_docked = anchor(new_position),
                              !.called = Append(@, new_position)])
    IN IF is_visible(ws1.position)
       THEN ensure_item_or_focus(close_right_sidebar_on_collision(ws1))
       ELSE restore_center_focus(ws1)

\* Faulty variant: the transition is put off while an item close is pending.
set_dock_position_waits_for_close(ws, new_position) ==
    IF ws.closing # {}
    THEN ws
    ELSE LET ws1 == [ws EXCEPT !.position = new_position,
                               !.pane_docked = anchor(new_position),
                               !.called = Append(@, new_position)]
             ws2 == IF is_visible(ws1.position)
                    THEN ensure_item_or_focus(close_right_sidebar_on_collision(ws1))
                    ELSE restore_center_focus(ws1)
         IN emit_DockAnchorChanged(ws2)

\* Faulty variant: a hidden dock's pane is told it is not docked (set_docked(None)).
set_dock_position_untags_hidden(ws, new_position) ==
    LET ws1 == [ws EXCEPT !.position = new_position,
                          !.pane_docked = IF is_visible(new_position)
                                          THEN anchor(new_position)
                                          ELSE "none",
                          !.called = Append(@, new_position)]
        ws2 == IF is_visible(ws1.position)
               THEN ensure_item_or_focus(close_right_sidebar_on_collision(ws1))
               ELSE restore_center_focus(ws1)
    IN emit_DockAnchorChanged(ws2)

\* Faulty variant: the pane is populated on transitions to a hidden position too.
set_dock_position_populates_hidden(ws, new_position) ==
    LET ws1 == [ws EXCEPT !.position = new_position,
                          !.pane_docked = anchor(new_position),
                          !.called = Append(@, new_position)]
        ws2 == IF is_visible(ws1.position)
               THEN ensure_item_or_focus(close_right_sidebar_on_collision(ws1))
               ELSE restore_center_focus(
                        IF ws1.items = {}
                        THEN Pane_add_item(factory_invoked(ws1), default_item_factory(ws1))
                        ELSE ws1)
    IN emit_DockAnchorChanged(ws2)

set_dock_position(ws, new_position) ==
    LET ws1 == [ws EXCEPT !.position = new_position,
                          !.pane_docked = anchor(new_position),
                          !.called = Append(@, new_position)]
        ws2 == IF is_visible(ws1.position)
               THEN ensure_item_or_focus(close_right_sidebar_on_collision(ws1))
               ELSE restore_center_focus(ws1)
    IN emit_DockAnchorChanged(ws2)

\* Faulty variant: a dock that is already shown only has its position replaced.
move_dock_skips_chain(ws, new_anchor) ==
    IF is_visible(ws.position)
    THEN [ws EXCEPT !.position = Shown(new_anchor), !.pane_docked = new_anchor]
    ELSE set_dock_position(ws, Shown(new_anchor))

move_dock(ws, new_anchor) == set_dock_position(ws, Shown(new_anchor))

\* Faulty variant: the shown position is written without the steps of set_dock_position.
focus_dock_sets_position_only(ws) == [ws EXCEPT !.position = show(ws.position)]

focus_dock(ws) == set_dock_position(ws, show(ws.position))

hide_dock(ws) == set_dock_position(ws, hide(ws.position))

(***************************************************************************)
(* ToggleDockButton.  render reads dock.position through the weak         *)
(* workspace handle and binds the click handler for that position; the     *)
(* subscription of ToggleDockButton::new re-renders it on every workspace   *)
(* event.                                                                  *)
(***************************************************************************)
EmptyElement == [on_click |-> "none", icon |-> "none", active |-> FALSE]

ToggleDockButton_render(ws) ==
    IF ~ws.workspace_alive
    THEN EmptyElement
    ELSE LET dock_position == ws.position
         IN [on_click |-> IF is_visible(dock_position) THEN "HideDock" ELSE "FocusDock",
             icon |-> anchor(dock_position),
             active |-> is_visible(dock_position)]

\* cx.subscribe(&workspace, |_, _, _, cx| cx.notify()): an event of the workspace
\* makes the button render again before the next input is handled.
ToggleDockButton_subscription(ws) ==
    IF ws.emitted # <<>>
    THEN [ws EXCEPT !.button = ToggleDockButton_render(ws)]
    ELSE ws

\* the on_click handler bound by the last render dispatches its action
ToggleDockButton_click(ws) ==
    CASE ws.button.on_click = "HideDock" -> hide_dock(ws)
      [] ws.button.on_click = "FocusDock" -> focus_dock(ws)
      [] OTHER -> ws

(***************************************************************************)
(* Dock::render.  An Option is the empty set or a singleton; the elements  *)
(* returned in a render pass are collected in rendered.  The callbacks of  *)
(* cx.defer are queued in deferred and run by the framework once the       *)
(* render pass is over.                                                    *)
(***************************************************************************)
\* Faulty variant: a visible dock renders at every candidate anchor.
Dock_render_anchor_any_candidate(ws, candidate) ==
    IF is_visible(ws.position) THEN {candidate} ELSE {}

\* self.position.is_visible().then(|| anchor()).filter(|current| *current == anchor)
Dock_render_anchor(ws, candidate) ==
    IF is_visible(ws.position)
    THEN {a \in {anchor(ws.position)} : a = candidate}
    ELSE {}

\* Container::with_resize_handle(.., initial_size, cx) and current_size(): the
\* handle's element state starts as initial_size and then keeps what the user dragged.
with_resize_handle(ws, a, initial) ==
    IF ws.handle_size[a] = NoSize THEN initial ELSE ws.handle_size[a]

Dock_render(ws, candidate) ==
    IF Dock_render_anchor(ws, candidate) = {}
    THEN ws
    ELSE IF candidate \in ResizableAnchors
         THEN LET remembered == ws.panel_sizes[candidate]
                  size == with_resize_handle(ws, candidate,
                              IF remembered # NoSize THEN remembered
                              ELSE initial_size(candidate))
              IN [ws EXCEPT
                     !.handle_size[candidate] = size,
                     !.deferred = Append(@, [anchor |-> candidate, size |-> size]),
                     !.rendered = @ \cup {[anchor |-> candidate, kind |-> "resizable",
                                           size |-> size]}]
         ELSE [ws EXCEPT
                  !.rendered = @ \cup {[anchor |-> candidate, kind |-> "overlay",
                                        size |-> NoSize]}]

\* render(c) yields an element
Renders(ws, c) == Dock_render([ws EXCEPT !.rendered = {}], c).rendered # {}

\* The workspace's render pass asks the dock for each of its three places and
\* renders the status bar with the toggle button.
Workspace_render(ws) ==
    LET ws0 == [ws EXCEPT !.rendered = {}]
        ws1 == Dock_render(ws0, "Bottom")
        ws2 == Dock_render(ws1, "Right")
        ws3 == Dock_render(ws2, "Expanded")
    IN [ws3 EXCEPT !.button = ToggleDockButton_render(ws3)]

\* Faulty variant: the callback writes without upgrading the workspace handle.
run_deferred_unchecked(ws) ==
    LET d == Head(ws.deferred)
    IN [ws EXCEPT !.panel_sizes[d.anchor] = d.size, !.deferred = Tail(@)]

\* the closure given to cx.defer
run_deferred(ws) ==
    LET d == Head(ws.deferred)
    IN IF ws.workspace_alive
       THEN [ws EXCEPT !.panel_sizes[d.anchor] = d.size, !.deferred = Tail(@)]
       ELSE [ws EXCEPT !.deferred = Tail(@)]

(***************************************************************************)
(* The pane container's item close.  Pane::close_items returns a task that *)
(* closes the chosen items one by one and may be cancelled by the user;    *)
(* removing the last item of the dock's pane emits the pane's Remove       *)
(* event, on which the workspace hides the dock.                           *)
(***************************************************************************)
Pane_remove_item(ws, item, next_active) ==
    LET left == ws.items \ {item}
        had_focus == ws.focused = ItemView(DockPane, item)
    IN IF left = {}
       THEN Dock_hide([ws EXCEPT !.items = {},
                                 !.active_item = NoItem,
                                 !.focused = IF had_focus THEN PaneView(DockPane) ELSE @])
       ELSE LET act == IF ws.active_item = item THEN next_active ELSE ws.active_item
            IN [ws EXCEPT !.items = left,
                          !.active_item = act,
                          !.focused = IF had_focus THEN ItemView(DockPane, act) ELSE @]

\* Faulty variant: a cancelled close rolls the dock back by hiding it.
Pane_close_cancelled_hides(ws) == Dock_hide([ws EXCEPT !.closing = {}])

\* The pending Pane::close_items task fails or is cancelled: nothing more is closed.
Pane_close_cancelled(ws) == [ws EXCEPT !.closing = {}]

(***************************************************************************)
(* Init: the state after Workspace::new and Dock::new.                     *)
(***************************************************************************)
Dock_new(default_dock_anchor) ==
    [position |-> Hidden(default_dock_anchor),
     pane_docked |-> default_dock_anchor,
     items |-> {},
     active_item |-> NoItem,
     pane_is_active |-> FALSE,
     panel_sizes |-> [a \in DockAnchor |-> NoSize]]

Init ==
    \E default_dock_anchor \in DockAnchor :
        LET dock == Dock_new(default_dock_anchor)
        IN /\ position = dock.position
           /\ pane_docked = dock.pane_docked
           /\ items = dock.items
           /\ active_item = dock.active_item
           /\ next_item = 1
           /\ left_open = FALSE
           /\ right_open = FALSE
           /\ focused = PaneView(1)
           /\ pane_active = [p \in PaneIds |->
                                IF p = DockPane THEN dock.pane_is_active ELSE p = 1]
           /\ active_pane = 1
           /\ last_active_center_pane = NoPane
           /\ center_panes = {1}
           /\ panes_created = 1
           /\ closing = {}
           /\ emitted = <<>>
           /\ called = <<>>
           /\ invoked = <<>>
           /\ button = [on_click |-> "FocusDock", icon |-> default_dock_anchor,
                        active |-> FALSE]
           /\ workspace_alive = TRUE
           /\ panel_sizes = dock.panel_sizes
           /\ handle_size = [a \in ResizableAnchors |-> NoSize]
           /\ deferred = <<>>
           /\ rendered = {}
           /\ pre = [position |-> dock.position, pane_docked |-> dock.pane_docked,
                     items |-> {}, active_item |-> NoItem, next_item |-> 1,
                     left_open |-> FALSE, right_open |-> FALSE,
                     focused |-> PaneView(1),
                     pane_active |-> [p \in PaneIds |-> p = 1],
                     active_pane |-> 1, last_active_center_pane |-> NoPane,
                     center_panes |-> {1}, panes_created |-> 1, closing |-> {},
                     emitted |-> <<>>, called |-> <<>>, invoked |-> <<>>,
                     button |-> [on_click |-> "FocusDock",
                                 icon |-> default_dock_anchor, active |-> FALSE],
                     workspace_alive |-> TRUE,
                     panel_sizes |-> dock.panel_sizes,
                     handle_size |-> [a \in ResizableAnchors |-> NoSize],
                     deferred |-> <<>>, rendered |-> {}]
           /\ last_op = Op("init", "none", "none", 0)

\* The button's subscription runs on the events of ws, and the state variables
\* take the resulting values.
Step(op, ws) ==
    \E w \in {ToggleDockButton_subscription(ws)} :
        /\ w.next_item <= MaxItems + 1
        /\ position' = w.position
        /\ pane_docked' = w.pane_docked
        /\ items' = w.items
        /\ active_item' = w.active_item
        /\ next_item' = w.next_item
        /\ left_open' = w.left_open
        /\ right_open' = w.right_open
        /\ focused' = w.focused
        /\ pane_active' = w.pane_active
        /\ active_pane' = w.active_pane
        /\ last_active_center_pane' = w.last_active_center_pane
        /\ center_panes' = w.center_panes
        /\ panes_created' = w.panes_created
        /\ closing' = w.closing
        /\ emitted' = w.emitted
        /\ called' = w.called
        /\ invoked' = w.invoked
        /\ button' = w.button
        /\ workspace_alive' = w.workspace_alive
        /\ panel_sizes' = w.panel_sizes
        /\ handle_size' = w.handle_size
        /\ deferred' = w.deferred
        /\ rendered' = w.rendered
        /\ pre' = State
        /\ last_op' = op

\* Input is handled while the workspace exists and no deferred callback is queued.
Idle == workspace_alive /\ deferred = <<>>

\* One operation of the workspace ran to completion: the workspace becomes ws.
Commit(op, ws) == Idle /\ Step(op, ws)

(***************************************************************************)
(* Actions                                                                 *)
(***************************************************************************)
\* MoveDock(anchor), AnchorDockRight, AnchorDockBottom, ExpandDock
MoveDock(a) == Commit(Op("move_dock", a, "none", 0), move_dock(State, a))

\* HideDock
HideDock == Commit(Op("hide_dock", "none", "none", 0), hide_dock(State))

\* FocusDock
FocusDock == Commit(Op("focus_dock", "none", "none", 0), focus_dock(State))

\* a click on the ToggleDockButton of the status bar
ClickToggleDockButton ==
    Commit(Op("click_toggle", "none", "none", 0), ToggleDockButton_click(State))

\* workspace.toggle_sidebar(side, cx)
ToggleSidebar(side) ==
    Commit(Op("toggle_sidebar", "none", side, 0), toggle_sidebar(State, side))

\* a view of a center pane takes focus (focus_self)
FocusCenterPane(p) ==
    /\ p \in center_panes
    /\ Commit(Op("focus_center", "none", "none", p), focus(State, PaneView(p)))

\* an item of the dock's pane takes focus (focus_self)
FocusDockItem(i) ==
    /\ i \in items
    /\ Commit(Op("focus_dock_item", "none", "none", i),
              focus(State, ItemView(DockPane, i)))

\* the user adds one more item to the dock's pane
AddItemToDock ==
    Commit(Op("add_item", "none", "none", next_item),
           Pane_add_item(State, next_item))

\* Pane::close_items(workspace, dock_pane, cx, should_close) is started
CloseDockItems(S) ==
    /\ closing = {}
    /\ S # {}
    /\ S \subseteq items
    /\ Commit(Op("close_items", "none", "none", 0), [State EXCEPT !.closing = S])

\* the pending close removes its next item
CloseItem(i, next_active) ==
    /\ i \in closing
    /\ next_active \in (items \ {i}) \cup {NoItem}
    /\ (items \ {i} # {}) => next_active # NoItem
    /\ (items \ {i} = {} \/ i # active_item \/ i \notin items) => next_active = NoItem
    /\ Commit(Op("close_item", "none", "none", i),
              IF i \in items
              THEN Pane_remove_item([State EXCEPT !.closing = @ \ {i}], i, next_active)
              ELSE [State EXCEPT !.closing = @ \ {i}])

\* the pending close fails or is cancelled by the user
CancelClose ==
    /\ closing # {}
    /\ Commit(Op("cancel_close", "none", "none", 0), Pane_close_cancelled(State))

\* the workspace splits off a new center pane, which takes focus
SplitCenterPane ==
    /\ panes_created < MaxCenterPanes
    /\ Commit(Op("split_pane", "none", "none", panes_created + 1),
              focus([State EXCEPT !.center_panes = @ \cup {panes_created + 1},
                                  !.panes_created = @ + 1],
                    PaneView(panes_created + 1)))

\* a center pane that is neither active nor focused is removed and released
DropCenterPane(p) ==
    /\ p \in center_panes
    /\ Cardinality(center_panes) > 1
    /\ p # active_pane
    /\ focused.pane # p
    /\ Commit(Op("drop_pane", "none", "none", p),
              [State EXCEPT !.center_panes = @ \ {p}])

Next ==
    \/ \E a \in DockAnchor : MoveDock(a)
    \/ HideDock
    \/ FocusDock
    \/ ClickToggleDockButton
    \/ \E side \in SidebarSide : ToggleSidebar(side)
    \/ \E p \in CenterPaneIds : FocusCenterPane(p)
    \/ \E i \in ItemIds : FocusDockItem(i)
    \/ AddItemToDock
    \/ \E S \in SUBSET ItemIds : CloseDockItems(S)
    \/ \E i \in ItemIds : \E n \in ItemIds \cup {NoItem} : CloseItem(i, n)
    \/ CancelClose
    \/ SplitCenterPane
    \/ \E p \in CenterPaneIds : DropCenterPane(p)

Spec == Init /\ [][Next]_vars

(***************************************************************************)
(* Rendering.  Dock::render reads position and panel_sizes only, and its   *)
(* deferred callback writes panel_sizes only, so the render pass is        *)
(* explored together with the operations that change the position; the     *)
(* pane's items and the center panes play no part in it.                   *)
(***************************************************************************)
\* a render pass of the window; the framework runs queued callbacks before it
RenderPass ==
    /\ Idle
    /\ Step(Op("render", "none", "none", 0), Workspace_render(State))

\* the framework runs the callback queued by the render pass
FlushDeferred ==
    /\ deferred # <<>>
    /\ Step(Op("flush_deferred", "none", "none", 0), run_deferred(State))

\* the user drags the resize handle of the rendered dock to size s
DragResizeHandle(a, s) ==
    /\ Idle
    /\ position = Shown(a)
    /\ \E e \in rendered : e.anchor = a /\ e.kind = "resizable"
    /\ handle_size[a] # s
    /\ Step(Op("drag", a, "none", s), [State EXCEPT !.handle_size[a] = s])

\* a mouse down on the wash of the rendered overlay dispatches HideDock
ClickExpandedDockWash ==
    /\ Idle
    /\ position = Shown("Expanded")
    /\ \E e \in rendered : e.kind = "overlay"
    /\ Step(Op("click_wash", "none", "none", 0), hide_dock(State))

\* the workspace is dropped; handles to it no longer upgrade
TeardownWorkspace ==
    /\ workspace_alive
    /\ Step(Op("teardown", "none", "none", 0),
            [State EXCEPT !.workspace_alive = FALSE])

\* the toggle button renders on its own (it holds the workspace weakly)
RenderToggleDockButton ==
    /\ deferred = <<>>
    /\ button # ToggleDockButton_render(State)
    /\ Step(Op("render_button", "none", "none", 0),
            [State EXCEPT !.button = ToggleDockButton_render(State)])

NextRender ==
    \/ \E a \in DockAnchor : MoveDock(a)
    \/ HideDock
    \/ FocusDock
    \/ ClickToggleDockButton
    \/ \E side \in SidebarSide : ToggleSidebar(side)
    \/ RenderPass
    \/ FlushDeferred
    \/ \E a \in ResizableAnchors, s \in Sizes : DragResizeHandle(a, s)
    \/ ClickExpandedDockWash
    \/ TeardownWorkspace
    \/ RenderToggleDockButton

SpecRender == Init /\ [][NextRender]_vars

TypeOK ==
    /\ position \in DockPosition
    /\ pane_docked \in DockAnchor
    /\ items \subseteq ItemIds
    /\ active_item \in items \cup {NoItem}
    /\ (items # {}) => active_item \in items
    /\ focused.pane \in PaneIds \cup {WorkspaceView}
    /\ active_pane \in PaneIds
    /\ closing \subseteq ItemIds
    /\ button.on_click \in {"HideDock", "FocusDock", "none"}
    /\ workspace_alive \in BOOLEAN
    /\ panel_sizes \in [DockAnchor -> Sizes \cup {NoSize}]
    /\ handle_size \in [ResizableAnchors -> Sizes \cup {NoSize}]
    /\ Len(deferred) <= 1

(***************************************************************************)
(* Properties.  last_op and pre name the operation that led to the current *)
(* state and the state it started from.                                    *)
(***************************************************************************)
Moved(a) == last_op.name = "move_dock" /\ last_op.anchor = a

\* toggle_sidebar(side) found the sidebar closed and opened it
Opened(side) ==
    /\ last_op.name = "toggle_sidebar"
    /\ last_op.side = side
    /\ ~sidebar_is_open(pre, side)

\* C1  Right-exclusion: move_to(Right) from a state with the right sidebar open
\* ends with the right sidebar closed and the dock at Shown(Right).
C1_RightExclusion ==
    (Moved("Right") /\ pre.right_open)
        => (~right_open /\ position = Shown("Right"))

C1_Witness ==
    /\ Moved("Right")
    /\ pre.right_open
    /\ ~right_open
    /\ position = Shown("Right")

\* C2  Expanded exclusion: when the dock is Shown(Expanded) and a sidebar on either
\* side opens (hide_on_sidebar_shown is called with that side), the position
\* becomes Hidden(Expanded).
C2_ExpandedExclusion ==
    /\ \A side \in SidebarSide :
          (Opened(side) /\ pre.position = Shown("Expanded"))
              => position = Hidden("Expanded")
    /\ \A side \in SidebarSide :
          position = Shown("Expanded")
              => hide_on_sidebar_shown(State, side).position = Hidden("Expanded")

C2_Witness ==
    /\ Opened("Left")
    /\ pre.position = Shown("Expanded")
    /\ position = Hidden("Expanded")
    /\ left_open

\* C3  For a dock shown at Right or Bottom, hide_on_sidebar_shown(side) hides the
\* dock iff side is Right and the dock is shown at Right (giving Hidden(Right));
\* the left sidebar opening leaves such a dock's position unchanged and either
\* sidebar opening leaves Shown(Bottom) unchanged.
C3_Expected(p, side) ==
    IF side = "Right" /\ p = Shown("Right") THEN Hidden("Right") ELSE p

C3_RightBottomCollision ==
    /\ \A side \in SidebarSide :
          (Opened(side) /\ pre.position \in {Shown("Right"), Shown("Bottom")})
              => position = C3_Expected(pre.position, side)
    /\ \A side \in SidebarSide :
          position \in {Shown("Right"), Shown("Bottom")}
              => hide_on_sidebar_shown(State, side).position
                     = C3_Expected(position, side)

C3_Witness ==
    /\ Opened("Left")
    /\ pre.position = Shown("Right")
    /\ position = Shown("Right")
    /\ left_open

\* C4  Bottom non-exclusion: move_to(Bottom) and move_to(Expanded) leave the
\* open/closed state of both sidebars unchanged; with both sidebars open,
\* move_to(Bottom) leaves both open and the dock at Shown(Bottom).
C4_BottomNonExclusion ==
    /\ (Moved("Bottom") \/ Moved("Expanded"))
          => (left_open = pre.left_open /\ right_open = pre.right_open)
    /\ (Moved("Bottom") /\ pre.left_open /\ pre.right_open)
          => (left_open /\ right_open /\ position = Shown("Bottom"))

C4_Witness ==
    /\ Moved("Bottom")
    /\ pre.left_open /\ pre.right_open
    /\ left_open /\ right_open
    /\ position = Shown("Bottom")

\* C5  Non-empty invariant: after move_to(A), for every anchor A, on a workspace
\* whose dock pane held no item, the dock is visible and its pane holds exactly
\* one item, which is the active item and has input focus.
C5_NonEmpty ==
    \A a \in DockAnchor :
        (Moved(a) /\ pre.items = {})
            => /\ visible_pane(State) = {DockPane}
               /\ Cardinality(items) = 1
               /\ active_item \in items
               /\ focused = ItemView(DockPane, active_item)

C5_Witness ==
    /\ Moved("Expanded")
    /\ pre.items = {}
    /\ Cardinality(items) = 1
    /\ focused = ItemView(DockPane, active_item)
    /\ position = Shown("Expanded")

\* C6  Empty-then-reopen: when the last item of a shown dock's pane is closed, the
\* dock becomes hidden at the same anchor with an empty pane; a move_to on the
\* emptied pane leaves it non-empty with newly created items only, none of them
\* an instance that existed before.
C6_EmptyThenReopen ==
    /\ (last_op.name = "close_item" /\ pre.items # {} /\ items = {}
            /\ is_visible(pre.position))
          => position = Hidden(anchor(pre.position))
    /\ \A a \in DockAnchor :
          (Moved(a) /\ pre.items = {})
              => (items # {} /\ \A i \in items : i >= pre.next_item)

\* the reopen after a close: an older instance existed and is not in the pane
C6_Witness ==
    /\ Moved("Right")
    /\ pre.items = {}
    /\ pre.position = Hidden("Right")
    /\ pre.next_item > 1
    /\ items = {pre.next_item}
    /\ position = Shown("Right")

C6_WitnessClosed ==
    /\ last_op.name = "close_item"
    /\ pre.items # {} /\ items = {}
    /\ pre.position = Shown("Right")
    /\ position = Hidden("Right")

\* C7  Focus handoff: with the dock shown at Right and holding an item, focusing
\* a center pane leaves the position Shown(Right), the dock pane inactive and
\* that center pane active; focusing an item of the dock then leaves the
\* position Shown(Right), the dock pane active and the center panes inactive.
\* Either way exactly one pane is active.
ActivePanes == {p \in PaneIds : pane_active[p]}

C7_FocusHandoff ==
    /\ (last_op.name = "focus_center" /\ pre.position = Shown("Right")
            /\ pre.items # {})
          => /\ position = Shown("Right")
             /\ ActivePanes = {last_op.id}
    /\ (last_op.name = "focus_dock_item" /\ pre.position = Shown("Right"))
          => /\ position = Shown("Right")
             /\ ActivePanes = {DockPane}

\* the dock's item takes focus back from the center pane
C7_Witness ==
    /\ last_op.name = "focus_dock_item"
    /\ pre.position = Shown("Right")
    /\ pre.active_pane \in CenterPaneIds
    /\ ~pre.pane_active[DockPane]
    /\ position = Shown("Right")
    /\ ActivePanes = {DockPane}

C7_WitnessCenter ==
    /\ last_op.name = "focus_center"
    /\ pre.position = Shown("Right")
    /\ pre.pane_active[DockPane]
    /\ position = Shown("Right")
    /\ ActivePanes = {last_op.id}

\* C8  Focusing a view that is not in the dock while the dock is Shown(Expanded)
\* hides the dock: the position becomes Hidden(Expanded).
C8_FocusOutsideExpandedHides ==
    (last_op.name = "focus_center" /\ pre.position = Shown("Expanded"))
        => position = Hidden("Expanded")

C8_Witness ==
    /\ last_op.name = "focus_center"
    /\ pre.position = Shown("Expanded")
    /\ position = Hidden("Expanded")
    /\ focused = PaneView(last_op.id)

\* C9  Toggle round trip: after every transition to a visible position (show or
\* move_to) the dock is visible and its pane is active and holds the focus,
\* whether the pane was empty or already held an item.
C9_ShowFocusesDock ==
    (last_op.name \in {"move_dock", "focus_dock"})
        => /\ is_visible(position)
           /\ pane_active[DockPane]
           /\ focused.pane = DockPane

\* the repeat visit: hidden with an item and the center pane active, then move_to
C9_Witness ==
    /\ Moved("Right")
    /\ pre.position = Hidden("Right")
    /\ pre.items # {}
    /\ ~pre.pane_active[DockPane]
    /\ pre.focused.pane # DockPane
    /\ pane_active[DockPane]
    /\ focused.pane = DockPane

\* C10  A set_dock_position to a hidden position moves the focus to the last
\* active center pane when that weak handle is set and alive; when it is unset
\* or dead the focus stays where it was.  Either way the position is updated
\* and the notification is emitted.
C10_HiddenFocusRestore ==
    (last_op.name = "hide_dock") =>
        /\ position = hide(pre.position)
        /\ Len(emitted) = 1
        /\ emitted[1].position = position
        /\ IF upgrade_last_active_center_pane(pre) # {}
           THEN focused = PaneView(pre.last_active_center_pane)
           ELSE focused = pre.focused

\* the weak handle is dead
C10_Witness ==
    /\ last_op.name = "hide_dock"
    /\ pre.last_active_center_pane # NoPane
    /\ pre.last_active_center_pane \notin pre.center_panes
    /\ pre.position = Shown("Bottom")
    /\ position = Hidden("Bottom")
    /\ focused = pre.focused
    /\ Len(emitted) = 1

C10_WitnessUnset ==
    /\ last_op.name = "hide_dock"
    /\ pre.last_active_center_pane = NoPane
    /\ is_visible(pre.position)
    /\ focused = pre.focused

C10_WitnessAlive ==
    /\ last_op.name = "hide_dock"
    /\ pre.focused.pane = DockPane
    /\ focused = PaneView(pre.last_active_center_pane)

\* C11  Every call of set_dock_position emits exactly one DockAnchorChanged, and
\* emits it last: when it is emitted the position equals the new_position of the
\* call, the right sidebar exclusion has been applied and the focus change has
\* been made, so that an observer reads the final state.
C11_EmitOnceAndLast ==
    /\ Len(emitted) = Len(called)
    /\ \A k \in 1..Len(emitted) :
          /\ emitted[k] = Observed(State)
          /\ \A j \in 1..Len(called) : emitted[k].position = called[j]
          /\ (emitted[k].position = Shown("Right")) => ~emitted[k].right_open
          /\ is_visible(emitted[k].position)
                => (emitted[k].items # {} /\ emitted[k].focused.pane = DockPane)
          /\ (~is_visible(emitted[k].position)
                /\ upgrade_last_active_center_pane(State) # {})
                => emitted[k].focused = PaneView(last_active_center_pane)

\* move_to(Right) that closes the right sidebar, adds the default item and is
\* re-entered once through the focus change
C11_Witness ==
    /\ Moved("Right")
    /\ pre.right_open
    /\ pre.items = {}
    /\ Len(called) = 2
    /\ Len(emitted) = 2
    /\ emitted[2] = Observed(State)
    /\ ~right_open

C11_WitnessHidden ==
    /\ last_op.name = "hide_dock"
    /\ Len(called) = 1
    /\ Len(emitted) = 1
    /\ pre.focused.pane = DockPane
    /\ focused.pane \in CenterPaneIds

\* C12  Idempotence of the position helpers: hide(hide(p)) = hide(p) and
\* show(show(p)) = show(p) for every DockPosition p, in particular for the
\* position the dock holds.
C12_Idempotence ==
    /\ \A p \in DockPosition :
          /\ hide(hide(p)) = hide(p)
          /\ show(show(p)) = show(p)
    /\ position \in DockPosition
    /\ (last_op.name = "hide_dock") => hide(position) = position
    /\ (last_op.name = "focus_dock") => show(position) = position

\* hide applied to a position that hide produced
C12_Witness ==
    /\ last_op.name = "hide_dock"
    /\ pre.position = Hidden("Expanded")
    /\ position = Hidden("Expanded")
    /\ hide(hide(Shown("Expanded"))) = position

\* C13  Anchor preservation: hide and show never change the anchor, so
\* show(hide(Shown(a))) = Shown(a); over any sequence of operations the anchor
\* of the dock position changes only in a move_to step.
C13_AnchorPreservation ==
    /\ \A p \in DockPosition :
          /\ anchor(hide(p)) = anchor(p)
          /\ anchor(show(p)) = anchor(p)
    /\ \A a \in DockAnchor :
          /\ show(hide(Shown(a))) = Shown(a)
          /\ anchor(show(Hidden(a))) = a
    /\ (last_op.name # "move_dock") => anchor(position) = anchor(pre.position)

\* a dock hidden at a non-default anchor is shown again at that anchor
C13_Witness ==
    /\ last_op.name = "focus_dock"
    /\ pre.position = Hidden("Bottom")
    /\ position = Shown("Bottom")

\* C14  move_to(anchor) always ends with the position Shown(anchor), whatever
\* the position was, and re-runs the invariant chain also when the dock was
\* already shown: the right sidebar is closed for Right, the pane holds an item
\* and has the focus.
C14_MoveAlwaysShows ==
    \A a \in DockAnchor :
        Moved(a) =>
            /\ position = Shown(a)
            /\ pane_docked = a
            /\ (a = "Right") => ~right_open
            /\ items # {}
            /\ focused.pane = DockPane
            /\ Len(called) >= 1
            /\ called[1] = Shown(a)

\* from Shown(Bottom) with the right sidebar open and the focus in the center
C14_Witness ==
    /\ Moved("Right")
    /\ pre.position = Shown("Bottom")
    /\ pre.right_open
    /\ pre.focused.pane # DockPane
    /\ ~right_open
    /\ focused.pane = DockPane
    /\ position = Shown("Right")

\* C15  Redundant transitions are accepted and idempotent: hide on a hidden dock
\* and show on a shown dock run (the notification is emitted) and leave the
\* position, both sidebars and the pane's items unchanged; applying the
\* transition twice gives the same state as applying it once.
Quiet(ws) == [ws EXCEPT !.emitted = <<>>, !.called = <<>>, !.invoked = <<>>]

RedundantHide == last_op.name = "hide_dock" /\ ~is_visible(pre.position)
RedundantShow == last_op.name = "focus_dock" /\ is_visible(pre.position)

C15_RedundantTransitions ==
    /\ (RedundantHide \/ RedundantShow)
          => /\ position = pre.position
             /\ left_open = pre.left_open
             /\ right_open = pre.right_open
             /\ items = pre.items
             /\ Len(emitted) >= 1
    /\ RedundantHide => Quiet(hide_dock(State)) = State
    /\ RedundantShow => Quiet(focus_dock(State)) = State
    /\ ~is_visible(position)
          => Quiet(hide_dock(Quiet(hide_dock(State)))) = Quiet(hide_dock(State))
    /\ is_visible(position)
          => Quiet(focus_dock(Quiet(focus_dock(State)))) = Quiet(focus_dock(State))

\* show on a dock that is shown while the focus is in a center pane
C15_Witness ==
    /\ RedundantShow
    /\ pre.focused.pane \in CenterPaneIds
    /\ position = pre.position
    /\ items = pre.items
    /\ focused.pane = DockPane

C15_WitnessHide ==
    /\ RedundantHide
    /\ position = pre.position
    /\ Len(emitted) = 1

\* C16  A close of the dock's items that fails or is cancelled leaves the dock
\* position as it was; requesting a close and closing an item never write the
\* position themselves: it changes only in a set_dock_position call (the hide
\* that follows the removal of the pane's last item).
C16_CloseNeverMovesDock ==
    /\ (last_op.name \in {"close_items", "cancel_close"})
          => (position = pre.position /\ called = <<>>)
    /\ (last_op.name = "close_item")
          => IF pre.items # {} /\ items = {}
             THEN called = <<Hidden(anchor(pre.position))>> /\ position = called[1]
             ELSE position = pre.position /\ called = <<>>
    /\ (position # pre.position) => (Len(called) >= 1 /\ position = called[1])

\* a pending close is cancelled while the dock is shown and items remain
C16_Witness ==
    /\ last_op.name = "cancel_close"
    /\ pre.closing # {}
    /\ closing = {}
    /\ items # {}
    /\ pre.closing \cap items # {}
    /\ is_visible(position)
    /\ position = pre.position

\* C17  Dock transitions do not wait on item close: while a close is pending,
\* hide, show and move_to complete in one step, the position equals the
\* requested position right afterwards, and the close is still pending.
C17_TransitionsDoNotWait ==
    (pre.closing # {}) =>
        /\ (last_op.name = "hide_dock")
              => (position = hide(pre.position) /\ closing = pre.closing)
        /\ (last_op.name = "focus_dock")
              => (position = show(pre.position) /\ closing = pre.closing)
        /\ \A a \in DockAnchor :
              Moved(a) => (position = Shown(a) /\ closing = pre.closing)

C17_Witness ==
    /\ Moved("Bottom")
    /\ pre.closing # {}
    /\ closing = pre.closing
    /\ pre.position = Shown("Right")
    /\ position = Shown("Bottom")

C17_WitnessHide ==
    /\ last_op.name = "hide_dock"
    /\ pre.closing # {}
    /\ closing = pre.closing
    /\ is_visible(pre.position)
    /\ ~is_visible(position)

\* C18  A click on ToggleDockButton dispatches HideDock when the dock is visible
\* and FocusDock when it is hidden: a click negates the visibility and keeps the
\* anchor.  As every dock transition emits a workspace event on which the
\* button renders again, the handler it holds is the one for the current position.
C18_ToggleButton ==
    /\ button = ToggleDockButton_render(State)
    /\ (last_op.name = "click_toggle")
          => /\ pre.button.on_click
                   = (IF is_visible(pre.position) THEN "HideDock" ELSE "FocusDock")
             /\ is_visible(position) = ~is_visible(pre.position)
             /\ anchor(position) = anchor(pre.position)

\* a click hides the shown dock and the button is rebound to FocusDock
C18_Witness ==
    /\ last_op.name = "click_toggle"
    /\ pre.position = Shown("Bottom")
    /\ pre.button.on_click = "HideDock"
    /\ position = Hidden("Bottom")
    /\ button.on_click = "FocusDock"

\* a click shows the hidden dock and the button is rebound to HideDock
C18_WitnessShow ==
    /\ last_op.name = "click_toggle"
    /\ pre.position = Hidden("Right")
    /\ pre.button.on_click = "FocusDock"
    /\ position = Shown("Right")
    /\ button.on_click = "HideDock"

\* C19  Render policy: render(c) yields an element exactly when is_anchored_at(c),
\* that is when the position is Shown(c); so at most one of the three anchors
\* renders the dock, none does while it is hidden, and visible_pane() is present
\* exactly when the position is Shown.
C19_RenderPolicy ==
    /\ \A c \in DockAnchor :
          /\ Renders(State, c) <=> is_anchored_at(State, c)
          /\ is_anchored_at(State, c) <=> (position = Shown(c))
    /\ Cardinality({c \in DockAnchor : Renders(State, c)}) <= 1
    /\ ~is_visible(position) => \A c \in DockAnchor : ~Renders(State, c)
    /\ (visible_pane(State) # {}) <=> (\E a \in DockAnchor : position = Shown(a))
    /\ (last_op.name = "render")
          => {e.anchor : e \in rendered} = {a \in DockAnchor : position = Shown(a)}

\* a render pass with the dock shown at the bottom returned the bottom element only
C19_Witness ==
    /\ last_op.name = "render"
    /\ position = Shown("Bottom")
    /\ {e.anchor : e \in rendered} = {"Bottom"}

\* a render pass with the dock hidden returned nothing
C19_WitnessHidden ==
    /\ last_op.name = "render"
    /\ position = Hidden("Right")
    /\ pre.rendered # {}
    /\ rendered = {}

\* C20  Deferred size write-back: a render of the dock at Right or Bottom queues
\* a write of the resulting size under the rendered anchor and leaves panel_sizes
\* as it was; the queued write runs before the next render pass begins; if the
\* workspace was torn down in between, the write is dropped and panel_sizes stays.
C20_DeferredWriteBack ==
    /\ (last_op.name = "render")
          => /\ pre.deferred = <<>>
             /\ panel_sizes = pre.panel_sizes
             /\ deferred = [i \in 1..Cardinality({e \in rendered : e.kind = "resizable"})
                              |-> CHOOSE d \in [anchor : ResizableAnchors, size : Sizes] :
                                     /\ position = Shown(d.anchor)
                                     /\ d.size = handle_size[d.anchor]]
    /\ (deferred # <<>>) => last_op.name \in {"render", "teardown"}
    /\ (last_op.name = "flush_deferred")
          => /\ pre.deferred # <<>>
             /\ deferred = <<>>
             /\ panel_sizes =
                   IF pre.workspace_alive
                   THEN [pre.panel_sizes EXCEPT
                            ![Head(pre.deferred).anchor] = Head(pre.deferred).size]
                   ELSE pre.panel_sizes

\* the size dragged at the bottom was written back after the render pass
C20_Witness ==
    /\ last_op.name = "flush_deferred"
    /\ pre.workspace_alive
    /\ Head(pre.deferred).anchor = "Bottom"
    /\ pre.panel_sizes["Bottom"] # NoSize
    /\ panel_sizes["Bottom"] # pre.panel_sizes["Bottom"]

\* the workspace was torn down between the render pass and the callback
C20_WitnessTornDown ==
    /\ last_op.name = "flush_deferred"
    /\ ~pre.workspace_alive
    /\ Head(pre.deferred).size # pre.panel_sizes[Head(pre.deferred).anchor]
    /\ panel_sizes = pre.panel_sizes

\* a transition requested directly: the first set_dock_position call is the request
DirectTransition ==
    /\ last_op.name \in {"move_dock", "focus_dock", "hide_dock", "click_toggle"}
    /\ Len(called) >= 1

\* C21  The default-item factory is invoked only by a set_dock_position whose new
\* position is visible while the pane holds no item, and then exactly once.  A
\* transition to a hidden position, and a transition to a visible position with
\* a pane that holds items, do not invoke it and leave the pane's items and its
\* active item as they were; the latter moves input focus into the pane.
C21_FactoryOnlyWhenEmptyAndVisible ==
    /\ \A k \in 1..Len(invoked) :
          /\ invoked[k].call \in 1..Len(called)
          /\ called[invoked[k].call] = invoked[k].position
          /\ is_visible(invoked[k].position)
          /\ invoked[k].items = {}
    /\ \A j, k \in 1..Len(invoked) : (invoked[j].call = invoked[k].call) => (j = k)
    /\ DirectTransition =>
          IF is_visible(called[1]) /\ pre.items = {}
          THEN /\ Len(invoked) = 1
               /\ invoked[1].call = 1
               /\ items = {default_item_factory(pre)}
               /\ active_item = default_item_factory(pre)
          ELSE /\ invoked = <<>>
               /\ items = pre.items
               /\ active_item = pre.active_item
               /\ (is_visible(called[1]) => focused = ItemView(DockPane, active_item))

\* a show of a hidden, empty dock invoked the factory once
C21_Witness ==
    /\ last_op.name = "focus_dock"
    /\ ~is_visible(pre.position)
    /\ pre.items = {}
    /\ pre.next_item > 1
    /\ Len(invoked) = 1

\* a move of a dock that holds two items, focus in the center: no invocation
C21_WitnessHolds ==
    /\ last_op.name = "move_dock"
    /\ Cardinality(pre.items) = 2
    /\ pre.focused.pane # DockPane
    /\ invoked = <<>>
    /\ focused.pane = DockPane

\* a hide of an empty dock: no invocation
C21_WitnessHidden ==
    /\ last_op.name = "hide_dock"
    /\ pre.items = {}
    /\ invoked = <<>>
    /\ items = {}

\* C22  In every reachable state, from construction on, the anchor the dock's pane
\* is tagged with equals the anchor of the dock position: Dock::new tags the pane
\* with the default anchor and sets Hidden(default anchor), and every
\* set_dock_position passes the new anchor to the pane, also when it hides.
C22_PaneAnchorTag ==
    /\ pane_docked = anchor(position)
    /\ (last_op.name = "init") => (position = Hidden(pane_docked))
    /\ (called # <<>>) => (pane_docked = anchor(called[Len(called)]))

\* the dock was hidden at an anchor it was moved to: the pane keeps that tag
C22_Witness ==
    /\ last_op.name = "hide_dock"
    /\ pre.position = Shown("Expanded")
    /\ position = Hidden("Expanded")
    /\ pane_docked = "Expanded"

\* the state after construction with Bottom as default anchor
C22_WitnessNew ==
    /\ last_op.name = "init"
    /\ position = Hidden("Bottom")
    /\ pane_docked = "Bottom"

\* C23  Mutual exclusion of the right dock and the right sidebar: with a sidebar
\* that calls hide_on_sidebar_shown whenever it opens, no state reached by a
\* completed operation has the dock at Shown(Right) while the right sidebar is
\* open, whatever the interleaving of moves, shows, hides, clicks on the toggle
\* button and sidebar toggles.
C23_RightDockSidebarExclusion ==
    ~(position = Shown("Right") /\ right_open)

\* the right sidebar opens on a dock shown at the right, the left sidebar being open
C23_Witness ==
    /\ last_op.name = "toggle_sidebar"
    /\ last_op.side = "Right"
    /\ pre.left_open
    /\ pre.position = Shown("Right")
    /\ right_open
    /\ position = Hidden("Right")

\* a click on the toggle button shows the dock at the right and closes the sidebar
C23_WitnessClick ==
    /\ last_op.name = "click_toggle"
    /\ pre.right_open
    /\ pre.position = Hidden("Right")
    /\ position = Shown("Right")
    /\ ~right_open

\* focus entering the hidden dock's pane shows it and closes the sidebar
C23_WitnessFocus ==
    /\ last_op.name = "focus_dock_item"
    /\ pre.right_open
    /\ pre.position = Hidden("Right")
    /\ position = Shown("Right")
    /\ ~right_open

\* C24  A visible dock is never empty at rest: in every state reached by a
\* completed operation, a completed item close included, and under any
\* interleaving of hides, shows, moves, sidebar toggles, focus changes and closes
\* of dock items, a dock whose position is Shown holds at least one item.
C24_VisibleDockNeverEmpty ==
    is_visible(position) => (items # {})

\* the close of the last item of a dock shown at the bottom left it hidden and empty
C24_Witness ==
    /\ last_op.name = "close_item"
    /\ pre.position = Shown("Bottom")
    /\ pre.items = {last_op.id}
    /\ items = {}
    /\ position = Hidden("Bottom")

\* a close that leaves an item behind keeps the dock shown
C24_WitnessRemains ==
    /\ last_op.name = "close_item"
    /\ Cardinality(pre.items) = 2
    /\ Cardinality(items) = 1
    /\ is_visible(position)

\* the emptied dock is shown again and holds a new item
C24_WitnessReopened ==
    /\ last_op.name = "click_toggle"
    /\ pre.items = {}
    /\ pre.next_item > 1
    /\ is_visible(position)
    /\ Cardinality(items) = 1

====
